---- MODULE Spec2Model ----
(***************************************************************************)
(* Model of the genesis entity registry (Entities), its two component      *)
(* storages (VecStorage, MapStorage) and the World that wires them         *)
(* together.  Indices are 0-based as in the source; TLA+ sequences are     *)
(* 1-based, so slot i of the source is ids[i + 1].                         *)
(***************************************************************************)
EXTENDS Integers, Sequences, FiniteSets, TLC

(* ---------------------------- bounds ----------------------------------- *)
\* largest length of the registry's slot table explored
MaxSlots == 2
\* largest generation a slot is driven to
MaxGen == 2
\* largest component payload explored (payloads are 1..MaxData)
MaxData == 2
\* largest backing length of the dense storage explored
MaxVecLen == 8
\* number of threads that share the registry handle
MaxThreads == 2
\* largest number of despawn / respawn cycles of slot 0 followed in one run
\* across the end of the generation's range
MaxCycleSteps == 3

(* ---------------------------- constants -------------------------------- *)
\* a u32 is held as the 32-bit integer with the same bit pattern: 0 .. 2^31-1
\* are themselves, 2^31 .. 2^32-1 are the negative numbers, 2^32-1 is -1
I32Max == 2147483647
\* smallest non-zero capacity a Vec allocates for elements of 2..1024 bytes
MinNonZeroCap == 4

\* ids, vec / vecCap, map: the registry's slot table, the dense storage's
\* backing Vec and its capacity, the sparse storage's HashMap; last: the most
\* recent call and its result; pc, rd, wr: each thread's position, the number
\* of read guards each thread holds on the registry's RwLock, and the set of
\* threads that hold its write guard; hist: what an observer of the run has
\* noted down so far (nothing, in the specifications that do not need it)
VARIABLES ids, vec, vecCap, map, last, pc, rd, wr, hist

vars == <<ids, vec, vecCap, map, last, pc, rd, wr, hist>>

\* the World's data, and the state of the lock and of the threads using it
dataVars == <<ids, vec, vecCap, map, last>>
lockVars == <<pc, rd, wr>>

\* what a call made by a single caller leaves as it was: the lock, taken and
\* given back within the call, the threads' positions and the observer's notes
otherVars == <<pc, rd, wr, hist>>

(* ---------------------------- values ----------------------------------- *)
\* Option<T>: None is the empty sequence, Some(v) the one-element sequence
None == << >>
Some(v) == << v >>

Data == 1 .. MaxData

Entity(i, g) == [index |-> i, generation |-> g]

Threads == 1 .. MaxThreads

\* the handles operations are called with: every index up to one past the
\* largest table, every generation explored
Handles == {Entity(i, g) : i \in 0 .. MaxSlots, g \in 0 .. MaxGen}

Used(g) == [used |-> TRUE, gen |-> g]
Unused(g) == [used |-> FALSE, gen |-> g]

is_unused(entry) == ~entry.used

Max(a, b) == IF a >= b THEN a ELSE b

\* wrapping_add as it would be if the increment stopped at u32::MAX
\* (u32::saturating_add)
saturating_add(g) == IF g = -1 THEN -1 ELSE g + 1

\* u32::wrapping_add(1): 2^31-1 steps to 2^31, and 2^32-1 (held as -1) to 0
wrapping_add(g) == IF g = I32Max THEN (0 - I32Max) - 1 ELSE g + 1

Fill(n, x) == [k \in 1 .. n |-> x]

(* ---------------------------- Entities --------------------------------- *)
\* Entities::new
EntitiesNew(capacity) == Fill(capacity, Unused(0))

\* Position as it would be if the scan kept the last unused slot it met
PositionLast(s) ==
    IF \E k \in 1 .. Len(s) : is_unused(s[k])
    THEN (CHOOSE k \in 1 .. Len(s) :
              /\ is_unused(s[k])
              /\ \A j \in (k + 1) .. Len(s) : ~is_unused(s[j])) - 1
    ELSE -1

\* ids.iter().position(|id| id.is_unused()): lowest unused index, or -1
Position(s) ==
    IF \E k \in 1 .. Len(s) : is_unused(s[k])
    THEN (CHOOSE k \in 1 .. Len(s) :
              /\ is_unused(s[k])
              /\ \A j \in 1 .. (k - 1) : ~is_unused(s[j])) - 1
    ELSE -1

\* Entities::spawn: the entity returned
SpawnEntity(s) ==
    IF Position(s) >= 0
    THEN Entity(Position(s), s[Position(s) + 1].gen)
    ELSE Entity(Len(s), 0)

\* SpawnIds as it would be if a recycled slot were not marked Used
SpawnIdsUnmarked(s) ==
    IF Position(s) >= 0
    THEN s
    ELSE Append(s, Used(0))

\* SpawnIds as it would be if recycling a slot advanced its generation
SpawnIdsBumping(s) ==
    IF Position(s) >= 0
    THEN [s EXCEPT ![Position(s) + 1] =
              Used(wrapping_add(s[Position(s) + 1].gen))]
    ELSE Append(s, Used(0))

\* Entities::spawn: the slot table afterwards
SpawnIds(s) ==
    IF Position(s) >= 0
    THEN [s EXCEPT ![Position(s) + 1] = Used(s[Position(s) + 1].gen)]
    ELSE Append(s, Used(0))

\* exists as it would be if the generation were not compared
existsAnyGeneration(s, id) ==
    IF id.index < Len(s)
    THEN s[id.index + 1].used
    ELSE FALSE

\* exists as it would be if an Unused slot were matched on its generation
existsAnyState(s, id) ==
    IF id.index < Len(s)
    THEN s[id.index + 1].gen = id.generation
    ELSE FALSE

\* Entities::exists
exists(s, id) ==
    IF id.index < Len(s)
    THEN IF s[id.index + 1].used
         THEN s[id.index + 1].gen = id.generation
         ELSE FALSE
    ELSE FALSE

\* DespawnOk as it would be if the generation were not compared
DespawnOkAnyGeneration(s, id) ==
    /\ id.index < Len(s)
    /\ s[id.index + 1].used

\* Entities::despawn: does the call return Ok
DespawnOk(s, id) ==
    /\ id.index < Len(s)
    /\ s[id.index + 1].used
    /\ id.generation = s[id.index + 1].gen

\* DespawnIds as it would be if the freed slot kept its generation
DespawnIdsSameGeneration(s, id) ==
    IF DespawnOk(s, id)
    THEN [s EXCEPT ![id.index + 1] = Unused(s[id.index + 1].gen)]
    ELSE s

\* DespawnIds as it would be if despawning the last slot removed it from the
\* table
DespawnIdsTruncating(s, id) ==
    IF DespawnOk(s, id)
    THEN IF id.index = Len(s) - 1
         THEN SubSeq(s, 1, Len(s) - 1)
         ELSE [s EXCEPT ![id.index + 1] =
                   Unused(wrapping_add(s[id.index + 1].gen))]
    ELSE s

\* Entities::despawn: the slot table afterwards
DespawnIds(s, id) ==
    IF DespawnOk(s, id)
    THEN [s EXCEPT ![id.index + 1] = Unused(wrapping_add(s[id.index + 1].gen))]
    ELSE s

\* ClearIds as it would be if Unused slots had their generation advanced too
ClearIdsEverySlot(s) ==
    [k \in 1 .. Len(s) |-> Unused(wrapping_add(s[k].gen))]

\* Entities::clear: the slot table afterwards
ClearIds(s) ==
    [k \in 1 .. Len(s) |->
        IF s[k].used THEN Unused(wrapping_add(s[k].gen)) ELSE s[k]]

\* Entities::iter: the entities yielded, in order
RECURSIVE IterFrom(_, _)
IterFrom(s, k) ==
    IF k > Len(s) THEN << >>
    ELSE IF s[k].used
         THEN << Entity(k - 1, s[k].gen) >> \o IterFrom(s, k + 1)
         ELSE IterFrom(s, k + 1)

\* iter as it would be if Unused slots were yielded as well
iterEverySlot(s) == [k \in 1 .. Len(s) |-> Entity(k - 1, s[k].gen)]

iter(s) == IterFrom(s, 1)

(* ---------------------------- VecStorage ------------------------------- *)
\* capacity of a Vec after reserving room for `required` elements
ReserveCap(cap, required) ==
    IF required <= cap THEN cap
    ELSE Max(MinNonZeroCap, Max(cap * 2, required))

\* Vec::resize_with(new_len, || None)
ResizeWith(v, new_len) ==
    IF new_len >= Len(v)
    THEN v \o Fill(new_len - Len(v), None)
    ELSE SubSeq(v, 1, new_len)

\* VecStorage::get, on the registry s and the backing Vec v
VecStorageGet(s, v, entity) ==
    IF exists(s, entity)
    THEN IF entity.index < Len(v) THEN v[entity.index + 1] ELSE None
    ELSE None

\* VecStorage::get in the current state
VecGet(entity) == VecStorageGet(ids, vec, entity)

\* VecStorage::get_mut: the entry a mutable reference is handed out to
VecGetMut(entity) ==
    IF exists(ids, entity)
    THEN IF entity.index < Len(vec) THEN vec[entity.index + 1] ELSE None
    ELSE None

\* NewLen as it would be if the Vec grew just enough to cover the index
NewLenIndexOnly(cap, index) == index + 1

\* VecStorage::set: the length the backing Vec is resized to on a miss
NewLen(cap, index) == Max(cap * 2, index + 1)

(* ---------------------------- MapStorage ------------------------------- *)
\* HashMap::get
HashGet(m, k) == IF k \in DOMAIN m THEN Some(m[k]) ELSE None

\* HashMap::insert
HashInsert(m, k, v) ==
    [j \in (DOMAIN m) \cup {k} |-> IF j = k THEN v ELSE m[j]]

\* HashRemove as it would be if the key were looked up and left in the map
HashRemoveKept(m, k) == m

\* HashMap::remove
HashRemove(m, k) == [j \in (DOMAIN m) \ {k} |-> m[j]]

\* HashMap::new / HashMap::clear
HashEmpty == [j \in {} |-> 0]

\* MapStorageGet as it would be if the entity were not validated
MapStorageGetUnvalidated(s, m, entity) == HashGet(m, entity.index)

\* MapStorage::get, on the registry s and the backing HashMap m
MapStorageGet(s, m, entity) ==
    IF exists(s, entity) THEN HashGet(m, entity.index) ELSE None

\* MapStorage::get in the current state
MapGet(entity) == MapStorageGet(ids, map, entity)

\* MapStorage::get_mut
MapGetMut(entity) ==
    IF exists(ids, entity) THEN HashGet(map, entity.index) ELSE None

(* ---------------------------- results ---------------------------------- *)
\* the most recent call and what it returned: the operation's name, the kind
\* of result ("Ok" / "Err" for a Result, "Entity" for spawn, "Unit"), the
\* Option<T> a storage call handed back, the Entity spawn handed back
Call(op, ret, val, ent) ==
    [op |-> op, ret |-> ret, val |-> val, ent |-> ent]

(* ---------------------------- Init ------------------------------------- *)
\* World::new(capacity)
Init ==
    \E capacity \in 0 .. MaxSlots :
        /\ ids = EntitiesNew(capacity)
        /\ vec = Fill(capacity, None)
        /\ vecCap = ReserveCap(0, capacity)
        /\ map = HashEmpty
        /\ last = Call("new", "Unit", None, None)
        /\ pc = [t \in Threads |-> "idle"]
        /\ rd = [t \in Threads |-> 0]
        /\ wr = {}
        /\ hist = << >>

(* ---------------------------- registry actions ------------------------- *)
\* World::spawn = Entities::spawn under the write lock
Spawn ==
    /\ Len(SpawnIds(ids)) <= MaxSlots
    /\ ids' = SpawnIds(ids)
    /\ last' = Call("spawn", "Entity", None, Some(SpawnEntity(ids)))
    /\ UNCHANGED <<vec, vecCap, map>>

\* Entities::despawn called on the registry alone (no storage fan-out)
Despawn(id) ==
    /\ DespawnOk(ids, id) => id.generation < MaxGen
    /\ ids' = DespawnIds(ids, id)
    /\ last' = Call("despawn", IF DespawnOk(ids, id) THEN "Ok" ELSE "Err", None, None)
    /\ UNCHANGED <<vec, vecCap, map>>

\* Entities::clear called on the registry alone (no storage fan-out)
Clear ==
    /\ \A k \in 1 .. Len(ids) : ids[k].used => ids[k].gen < MaxGen
    /\ ids' = ClearIds(ids)
    /\ last' = Call("clear", "Unit", None, None)
    /\ UNCHANGED <<vec, vecCap, map>>

(* ---------------------------- storage actions -------------------------- *)
\* VecTake as it would be if the entry were read and left in place
VecTakeKept(v, index) == v

\* VecTake as it would be if a missing position were created first
VecTakeGrowing(v, index) ==
    IF index < Len(v)
    THEN [v EXCEPT ![index + 1] = None]
    ELSE v \o Fill((index + 1) - Len(v), None)

\* VecStorage::remove_unchecked: the backing Vec afterwards (entry.take())
VecTake(v, index) ==
    IF index < Len(v) THEN [v EXCEPT ![index + 1] = None] ELSE v

\* VecStorage::remove_unchecked: the value returned
VecTaken(v, index) ==
    IF index < Len(v) THEN v[index + 1] ELSE None

\* VecStorage::set on an existing entity: the backing Vec afterwards
VecSetVec(v, cap, index, data) ==
    IF index < Len(v)
    THEN [v EXCEPT ![index + 1] = Some(data)]
    ELSE [ResizeWith(v, NewLen(cap, index)) EXCEPT ![index + 1] = Some(data)]

\* VecStorage::set on an existing entity: the capacity afterwards
VecSetCap(v, cap, index) ==
    IF index < Len(v) THEN cap ELSE ReserveCap(cap, NewLen(cap, index))

\* VecSetPrev as it would be if the evicted value were dropped
VecSetPrevDropped(v, index) == None

\* VecStorage::set on an existing entity: the evicted value returned
VecSetPrev(v, index) ==
    IF index < Len(v) THEN v[index + 1] ELSE None

\* VecSet as it would be if the backing Vec were grown before the entity is
\* validated
VecSetGrowFirst(entity, data) ==
    /\ entity.index >= Len(vec) => NewLen(vecCap, entity.index) <= MaxVecLen
    /\ IF exists(ids, entity)
       THEN /\ vec' = VecSetVec(vec, vecCap, entity.index, data)
            /\ vecCap' = VecSetCap(vec, vecCap, entity.index)
            /\ last' = Call("vec.set", "Ok",
                            VecSetPrev(vec, entity.index), None)
       ELSE /\ vec' = IF entity.index < Len(vec) THEN vec
                      ELSE ResizeWith(vec, NewLen(vecCap, entity.index))
            /\ vecCap' = VecSetCap(vec, vecCap, entity.index)
            /\ last' = Call("vec.set", "Err", None, None)
    /\ UNCHANGED <<ids, map>>

\* VecStorage::set
VecSet(entity, data) ==
    /\ (exists(ids, entity) /\ entity.index >= Len(vec))
            => NewLen(vecCap, entity.index) <= MaxVecLen
    /\ IF exists(ids, entity)
       THEN /\ vec' = VecSetVec(vec, vecCap, entity.index, data)
            /\ vecCap' = VecSetCap(vec, vecCap, entity.index)
            /\ last' = Call("vec.set", "Ok",
                            VecSetPrev(vec, entity.index), None)
       ELSE /\ UNCHANGED <<vec, vecCap>>
            /\ last' = Call("vec.set", "Err", None, None)
    /\ UNCHANGED <<ids, map>>

\* VecRemoveUnchecked as it would be if it validated the handle first
VecRemoveUncheckedValidated(entity) ==
    /\ vec' = IF exists(ids, entity) THEN VecTake(vec, entity.index) ELSE vec
    /\ last' = Call("vec.remove_unchecked", "Unit",
                    IF exists(ids, entity)
                    THEN VecTaken(vec, entity.index) ELSE None, None)
    /\ UNCHANGED <<ids, vecCap, map>>

\* VecStorage::remove_unchecked
VecRemoveUnchecked(entity) ==
    /\ vec' = VecTake(vec, entity.index)
    /\ last' = Call("vec.remove_unchecked", "Unit",
                    VecTaken(vec, entity.index), None)
    /\ UNCHANGED <<ids, vecCap, map>>

\* VecStorage::remove
VecRemove(entity) ==
    /\ IF exists(ids, entity)
       THEN /\ vec' = VecTake(vec, entity.index)
            /\ last' = Call("vec.remove", "Ok",
                            VecTaken(vec, entity.index), None)
       ELSE /\ vec' = vec
            /\ last' = Call("vec.remove", "Err", None, None)
    /\ UNCHANGED <<ids, vecCap, map>>

\* VecClear as it would be if the elements were kept
VecClearKept ==
    /\ vec' = vec
    /\ last' = Call("vec.clear", "Unit", None, None)
    /\ UNCHANGED <<ids, vecCap, map>>

\* VecStorage::clear (Vec::clear drops the elements and keeps the capacity)
VecClear ==
    /\ vec' = << >>
    /\ last' = Call("vec.clear", "Unit", None, None)
    /\ UNCHANGED <<ids, vecCap, map>>

\* MapStorage::set
MapSet(entity, data) ==
    /\ IF exists(ids, entity)
       THEN /\ map' = HashInsert(map, entity.index, data)
            /\ last' = Call("map.set", "Ok",
                            HashGet(map, entity.index), None)
       ELSE /\ map' = map
            /\ last' = Call("map.set", "Err", None, None)
    /\ UNCHANGED <<ids, vec, vecCap>>

\* MapStorage::remove_unchecked
MapRemoveUnchecked(entity) ==
    /\ map' = HashRemove(map, entity.index)
    /\ last' = Call("map.remove_unchecked", "Unit",
                    HashGet(map, entity.index), None)
    /\ UNCHANGED <<ids, vec, vecCap>>

\* MapStorage::remove
MapRemove(entity) ==
    /\ IF exists(ids, entity)
       THEN /\ map' = HashRemove(map, entity.index)
            /\ last' = Call("map.remove", "Ok",
                            HashGet(map, entity.index), None)
       ELSE /\ map' = map
            /\ last' = Call("map.remove", "Err", None, None)
    /\ UNCHANGED <<ids, vec, vecCap>>

\* MapStorage::clear
MapClear ==
    /\ map' = HashEmpty
    /\ last' = Call("map.clear", "Unit", None, None)
    /\ UNCHANGED <<ids, vec, vecCap>>

(* ---------------------------- World actions ---------------------------- *)
\* DespawnVec as it would be if the dense storage were left out of the fan-out
DespawnVecSkipped(v, id) == v

\* World::despawn: self.vec.remove_unchecked(id)
DespawnVec(v, id) == VecTake(v, id.index)

\* DespawnMap as it would be if the sparse storage were left out of the fan-out
DespawnMapSkipped(m, id) == m

\* World::despawn: self.map.remove_unchecked(id)
DespawnMap(m, id) == HashRemove(m, id.index)

\* WorldDespawn as it would be if the registry's result were only returned
\* after the fan-out (no `?` on the registry call)
WorldDespawnFanOutFirst(id) ==
    /\ DespawnOk(ids, id) => id.generation < MaxGen
    /\ ids' = DespawnIds(ids, id)
    /\ vec' = DespawnVec(vec, id)
    /\ map' = DespawnMap(map, id)
    /\ last' = Call("world.despawn",
                    IF DespawnOk(ids, id) THEN "Ok" ELSE "Err", None, None)
    /\ UNCHANGED vecCap

\* World::despawn: registry despawn, then remove_unchecked on every storage;
\* `?` returns early, before the fan-out, when the registry reports Err
WorldDespawn(id) ==
    /\ DespawnOk(ids, id) => id.generation < MaxGen
    /\ ids' = DespawnIds(ids, id)
    /\ IF DespawnOk(ids, id)
       THEN /\ vec' = DespawnVec(vec, id)
            /\ map' = DespawnMap(map, id)
            /\ last' = Call("world.despawn", "Ok", None, None)
       ELSE /\ UNCHANGED <<vec, map>>
            /\ last' = Call("world.despawn", "Err", None, None)
    /\ UNCHANGED vecCap

\* World::clear: self.<dense field>.clear()
WorldClearVec(v) == << >>

\* WorldClearMap as it would be if the sparse storage were left out of the
\* fan-out
WorldClearMapSkipped(m) == m

\* World::clear: self.<sparse field>.clear()
WorldClearMap(m) == HashEmpty

\* World::clear: registry clear, then clear on every storage
WorldClear ==
    /\ \A k \in 1 .. Len(ids) : ids[k].used => ids[k].gen < MaxGen
    /\ ids' = ClearIds(ids)
    /\ vec' = WorldClearVec(vec)
    /\ map' = WorldClearMap(map)
    /\ last' = Call("world.clear", "Unit", None, None)
    /\ UNCHANGED vecCap

\* WorldRegisterVec as it would be if the component were handed to the
\* sparse storage's field
WorldRegisterVecIntoMap(entity, component) == MapSet(entity, component)

\* Register<VecTestData> for World: self.vec.set(entity, component)
WorldRegisterVec(entity, component) == VecSet(entity, component)

\* Register<MapTestData> for World: self.map.set(entity, component)
WorldRegisterMap(entity, component) == MapSet(entity, component)

(* ---------------------------- storages side by side -------------------- *)
\* One VecStorage and one MapStorage over the same registry are handed the
\* same call with the same arguments in one step; the step records what
\* each of them returned.

\* what one storage call returned: "Ok" / "Err" / "Some" / "None" for the
\* shape of the result, and the Option<T> inside it
Result(ret, val) == [ret |-> ret, val |-> val]

\* a Result<Option<T>, NoSuchEntity>
Checked(s, entity, val) ==
    IF exists(s, entity) THEN Result("Ok", val) ELSE Result("Err", None)

\* the pair of results of the dense and of the sparse storage
Both(op, dense, sparse) == Call(op, "Pair", << dense, sparse >>, None)

\* get on both storages
PairGet(entity) ==
    /\ last' = Both("pair.get", Result("Option", VecGet(entity)),
                                Result("Option", MapGet(entity)))
    /\ UNCHANGED <<ids, vec, vecCap, map>>

\* PairGetMut as it would be if get_mut created a missing sparse entry
\* (HashMap::entry(..).or_insert(..) in place of HashMap::get_mut)
PairGetMutInserting(entity) ==
    /\ last' = Both("pair.get_mut", Result("Option", VecGetMut(entity)),
                                    Result("Option", MapGetMut(entity)))
    /\ map' = IF exists(ids, entity) /\ HashGet(map, entity.index) = None
              THEN HashInsert(map, entity.index, 1)
              ELSE map
    /\ UNCHANGED <<ids, vec, vecCap>>

\* get_mut on both storages
PairGetMut(entity) ==
    /\ last' = Both("pair.get_mut", Result("Option", VecGetMut(entity)),
                                    Result("Option", MapGetMut(entity)))
    /\ UNCHANGED <<ids, vec, vecCap, map>>

\* set on both storages
PairSet(entity, data) ==
    /\ (exists(ids, entity) /\ entity.index >= Len(vec))
            => NewLen(vecCap, entity.index) <= MaxVecLen
    /\ IF exists(ids, entity)
       THEN /\ vec' = VecSetVec(vec, vecCap, entity.index, data)
            /\ vecCap' = VecSetCap(vec, vecCap, entity.index)
            /\ map' = HashInsert(map, entity.index, data)
       ELSE UNCHANGED <<vec, vecCap, map>>
    /\ last' = Both("pair.set",
                    Checked(ids, entity, VecSetPrev(vec, entity.index)),
                    Checked(ids, entity, HashGet(map, entity.index)))
    /\ UNCHANGED ids

\* remove on both storages
PairRemove(entity) ==
    /\ IF exists(ids, entity)
       THEN /\ vec' = VecTake(vec, entity.index)
            /\ map' = HashRemove(map, entity.index)
       ELSE UNCHANGED <<vec, map>>
    /\ last' = Both("pair.remove",
                    Checked(ids, entity, VecTaken(vec, entity.index)),
                    Checked(ids, entity, HashGet(map, entity.index)))
    /\ UNCHANGED <<ids, vecCap>>

\* remove_unchecked on both storages
PairRemoveUnchecked(entity) ==
    /\ vec' = VecTake(vec, entity.index)
    /\ map' = HashRemove(map, entity.index)
    /\ last' = Both("pair.remove_unchecked",
                    Result("Option", VecTaken(vec, entity.index)),
                    Result("Option", HashGet(map, entity.index)))
    /\ UNCHANGED <<ids, vecCap>>

\* clear on both storages
PairClear ==
    /\ vec' = << >>
    /\ map' = HashEmpty
    /\ last' = Both("pair.clear", Result("Unit", None), Result("Unit", None))
    /\ UNCHANGED <<ids, vecCap>>

(* ---------------------------- generations at the end of their range ---- *)
\* The observer counts the despawn / respawn cycles of slot 0.  A count up
\* to 2^32 and a u32 are written as two 16-bit limbs << high, low >>.
Limb == 65536

\* the u32 held as the 32-bit integer g, in limbs
U32Limbs(g) ==
    IF g >= 0
    THEN << g \div Limb, g % Limb >>
    ELSE LET x == (g + I32Max) + 1
         IN << (x \div Limb) + 32768, x % Limb >>

\* the 32-bit integer that holds the u32 with limbs c
FromLimbs(c) ==
    IF c[1] < 32768
    THEN c[1] * Limb + c[2]
    ELSE (((c[1] - 32768) * Limb + c[2]) - I32Max) - 1

\* a + c modulo 2^32, in limbs
AddMod(a, c) ==
    << (a[1] + c[1] + ((a[2] + c[2]) \div Limb)) % Limb, (a[2] + c[2]) % Limb >>

\* c + 1 for a count (not reduced: << Limb, 0 >> is 2^32)
Inc(c) == IF c[2] = Limb - 1 THEN << c[1] + 1, 0 >> ELSE << c[1], c[2] + 1 >>

\* the generations slot 0 was first spawned with, and the numbers of cycles
\* after which a run is picked up: at its start, and 2^32 - 2 cycles later
FirstGens == {0, 1, -1, -2, I32Max, (0 - I32Max) - 1}
CyclesBefore == {<< 0, 0 >>, << Limb - 1, Limb - 2 >>}

\* the generation of slot 0 after c cycles, when it started as g
GenAfter(g, c) == FromLimbs(AddMod(U32Limbs(g), c))

\* the generations handles are made with in these runs
WrapGens ==
    {GenAfter(g, AddMod(c, << 0, n >>)) :
        g \in FirstGens, c \in CyclesBefore, n \in 0 .. MaxCycleSteps}

WrapHandles == {Entity(0, g) : g \in WrapGens}

\* Entities::new(1) and a first spawn of slot 0 at some generation, picked
\* up after the cycles the observer has counted
WrapInit ==
    \E g \in FirstGens, c \in CyclesBefore :
        /\ ids = << Used(GenAfter(g, c)) >>
        /\ vec = << None >>
        /\ vecCap = ReserveCap(0, 1)
        /\ map = HashEmpty
        /\ last = Call("spawn", "Entity", None, Some(Entity(0, GenAfter(g, c))))
        /\ pc = [t \in Threads |-> "idle"]
        /\ rd = [t \in Threads |-> 0]
        /\ wr = {}
        /\ hist = [gen0 |-> g, cycles |-> c, steps |-> 0]

\* the observer's count goes on while the run is followed and 2^32 cycles
\* are not yet complete
Counting == hist.steps < MaxCycleSteps /\ hist.cycles[1] < Limb

\* Entities::spawn recycling slot 0
WrapSpawn ==
    /\ Position(ids) = 0
    /\ ids' = SpawnIds(ids)
    /\ last' = Call("spawn", "Entity", None, Some(SpawnEntity(ids)))
    /\ UNCHANGED <<vec, vecCap, map, lockVars, hist>>

\* Entities::despawn; a despawn that succeeds starts the next cycle
WrapDespawn(id) ==
    /\ DespawnOk(ids, id) => Counting
    /\ ids' = DespawnIds(ids, id)
    /\ last' = Call("despawn", IF DespawnOk(ids, id) THEN "Ok" ELSE "Err",
                    None, None)
    /\ hist' = IF DespawnOk(ids, id)
               THEN [hist EXCEPT !.cycles = Inc(@), !.steps = @ + 1]
               ELSE hist
    /\ UNCHANGED <<vec, vecCap, map, lockVars>>

\* Entities::clear; a clear that frees slot 0 starts the next cycle
WrapClear ==
    /\ ids[1].used => Counting
    /\ ids' = ClearIds(ids)
    /\ last' = Call("clear", "Unit", None, None)
    /\ hist' = IF ids[1].used
               THEN [hist EXCEPT !.cycles = Inc(@), !.steps = @ + 1]
               ELSE hist
    /\ UNCHANGED <<vec, vecCap, map, lockVars>>

(* ---------------------------- the registry lock ------------------------ *)
\* Every storage call starts with self.entities.read().unwrap() and keeps
\* the guard to its end; spawn / despawn / clear run under
\* entities.write().unwrap(); an iteration keeps the guard of
\* entities.read().unwrap().iter() until the loop ends.  A call is split at
\* the lock: requesting the guard, being granted it, running the body and
\* dropping the guard.

\* positions at which a thread holds a write guard / one more read guard
WriteHeld == {"write_held", "iter_write_held"}
ReadHeld == {"read_held", "iter_read_held"}

\* positions inside an iteration over the live entities
InIter == {"iter", "iter_write_wait", "iter_write_held",
           "iter_read_wait", "iter_read_held"}

\* RwLock::read is granted when no thread holds the write guard
CanRead(w) == w = {}

\* CanWrite as it would be if a writer did not wait for the readers
CanWriteAmongReaders(r, w) == w = {}

\* RwLock::write is granted when no thread holds any guard
CanWrite(r, w) == w = {} /\ \A t \in Threads : r[t] = 0

\* where a thread goes on when the call it made returns
Return(p) == IF p \in InIter THEN "iter" ELSE "idle"

\* the guard of a finished call is dropped
DropRead(t) ==
    /\ rd' = [rd EXCEPT ![t] = rd[t] - 1]
    /\ wr' = wr
    /\ pc' = [pc EXCEPT ![t] = Return(pc[t])]
    /\ UNCHANGED hist

DropWrite(t) ==
    /\ wr' = wr \ {t}
    /\ rd' = rd
    /\ pc' = [pc EXCEPT ![t] = Return(pc[t])]
    /\ UNCHANGED hist

\* entities.write(): the calling thread asks for the write guard
RequestWrite(t) ==
    /\ pc[t] = "idle"
    /\ pc' = [pc EXCEPT ![t] = "write_wait"]
    /\ UNCHANGED <<rd, wr>>
    /\ UNCHANGED dataVars
    /\ UNCHANGED hist

\* entities.write() from inside an iteration of the same thread, which
\* still holds the iteration's read guard
RequestWriteInIter(t) ==
    /\ pc[t] = "iter"
    /\ pc' = [pc EXCEPT ![t] = "iter_write_wait"]
    /\ UNCHANGED <<rd, wr>>
    /\ UNCHANGED dataVars
    /\ UNCHANGED hist

\* AcquireWrite as it would be if the lock did not count the read guards of
\* the calling thread itself
AcquireWriteReentrant(t) ==
    /\ pc[t] \in {"write_wait", "iter_write_wait"}
    /\ wr = {}
    /\ \A u \in Threads \ {t} : rd[u] = 0
    /\ wr' = wr \cup {t}
    /\ pc' = [pc EXCEPT ![t] =
                 IF pc[t] = "write_wait" THEN "write_held"
                 ELSE "iter_write_held"]
    /\ UNCHANGED rd
    /\ UNCHANGED dataVars
    /\ UNCHANGED hist

\* entities.write() returns the guard
AcquireWrite(t) ==
    /\ pc[t] \in {"write_wait", "iter_write_wait"}
    /\ CanWrite(rd, wr)
    /\ wr' = wr \cup {t}
    /\ pc' = [pc EXCEPT ![t] =
                 IF pc[t] = "write_wait" THEN "write_held"
                 ELSE "iter_write_held"]
    /\ UNCHANGED rd
    /\ UNCHANGED dataVars
    /\ UNCHANGED hist

\* registry spawn / despawn / clear under the write guard, which is dropped
\* when the call returns
LockedSpawn(t) ==
    /\ pc[t] \in WriteHeld
    /\ Spawn
    /\ DropWrite(t)

\* LockedDespawn as it would be if the call did not wait for the guard it
\* asked for
LockedDespawnWaiting(t, id) ==
    /\ pc[t] \in WriteHeld \cup {"write_wait"}
    /\ Despawn(id)
    /\ DropWrite(t)

LockedDespawn(t, id) ==
    /\ pc[t] \in WriteHeld
    /\ Despawn(id)
    /\ DropWrite(t)

LockedClear(t) ==
    /\ pc[t] \in WriteHeld
    /\ Clear
    /\ DropWrite(t)

\* self.entities.read() at the start of a storage call, from outside or
\* from inside an iteration
RequestRead(t) ==
    /\ pc[t] \in {"idle", "iter"}
    /\ pc' = [pc EXCEPT ![t] =
                 IF pc[t] = "idle" THEN "read_wait" ELSE "iter_read_wait"]
    /\ UNCHANGED <<rd, wr>>
    /\ UNCHANGED dataVars
    /\ UNCHANGED hist

\* self.entities.read() returns the guard
AcquireRead(t) ==
    /\ pc[t] \in {"read_wait", "iter_read_wait"}
    /\ CanRead(wr)
    /\ rd' = [rd EXCEPT ![t] = rd[t] + 1]
    /\ pc' = [pc EXCEPT ![t] =
                 IF pc[t] = "read_wait" THEN "read_held"
                 ELSE "iter_read_held"]
    /\ UNCHANGED wr
    /\ UNCHANGED dataVars
    /\ UNCHANGED hist

\* the body of a storage call under its read guard, which is dropped when
\* the call returns
LockedMapSet(t, entity, data) ==
    /\ pc[t] \in ReadHeld
    /\ MapSet(entity, data)
    /\ DropRead(t)

LockedMapRemove(t, entity) ==
    /\ pc[t] \in ReadHeld
    /\ MapRemove(entity)
    /\ DropRead(t)

\* entities.read().unwrap().iter(): the loop starts once the guard is
\* granted, and the guard lives as long as the loop
IterBegin(t) ==
    /\ pc[t] = "idle"
    /\ CanRead(wr)
    /\ rd' = [rd EXCEPT ![t] = rd[t] + 1]
    /\ pc' = [pc EXCEPT ![t] = "iter"]
    /\ UNCHANGED wr
    /\ UNCHANGED dataVars
    /\ UNCHANGED hist

\* the loop ends and its guard is dropped
IterEnd(t) ==
    /\ pc[t] = "iter"
    /\ rd' = [rd EXCEPT ![t] = rd[t] - 1]
    /\ pc' = [pc EXCEPT ![t] = "idle"]
    /\ UNCHANGED wr
    /\ UNCHANGED dataVars
    /\ UNCHANGED hist

(* ---------------------------- a storage call against a despawn --------- *)
\* MapStorage::set and MapStorage::remove taken apart inside the guard:
\* `let lock = self.entities.read().unwrap()`, then `lock.exists(entity)`,
\* then the HashMap call, then the guard goes out of scope.  hist holds, per
\* thread, the call in progress: None, or Some of its entity and of
\* Some(data) for set, None for remove.

Pending(entity, data) == Some([entity |-> entity, data |-> data])

\* set and remove take &mut self: a storage runs one such call at a time
StorageFree == \A t \in Threads : hist[t] = None

RaceInit ==
    \E capacity \in 0 .. MaxSlots :
        /\ ids = EntitiesNew(capacity)
        /\ vec = Fill(capacity, None)
        /\ vecCap = ReserveCap(0, capacity)
        /\ map = HashEmpty
        /\ last = Call("new", "Unit", None, None)
        /\ pc = [t \in Threads |-> "idle"]
        /\ rd = [t \in Threads |-> 0]
        /\ wr = {}
        /\ hist = [t \in Threads |-> None]

\* MapStorage::set(entity, data) is called: self.entities.read()
SetRequestRead(t, entity, data) ==
    /\ pc[t] = "idle"
    /\ StorageFree
    /\ pc' = [pc EXCEPT ![t] = "read_wait"]
    /\ hist' = [hist EXCEPT ![t] = Pending(entity, Some(data))]
    /\ UNCHANGED <<rd, wr>>
    /\ UNCHANGED dataVars

\* MapStorage::remove(entity) is called: self.entities.read()
RemoveRequestRead(t, entity) ==
    /\ pc[t] = "idle"
    /\ StorageFree
    /\ pc' = [pc EXCEPT ![t] = "read_wait"]
    /\ hist' = [hist EXCEPT ![t] = Pending(entity, None)]
    /\ UNCHANGED <<rd, wr>>
    /\ UNCHANGED dataVars

\* `if lock.exists(entity)`: on to the HashMap call with the guard still
\* held, or Err(NoSuchEntity) returned and the guard dropped
StorageValidate(t) ==
    /\ pc[t] = "read_held"
    /\ hist[t] # None
    /\ IF exists(ids, hist[t][1].entity)
       THEN /\ pc' = [pc EXCEPT ![t] = "checked"]
            /\ UNCHANGED <<rd, wr, hist>>
            /\ UNCHANGED dataVars
       ELSE /\ last' = Call(IF hist[t][1].data # None
                            THEN "map.set" ELSE "map.remove",
                            "Err", None, None)
            /\ rd' = [rd EXCEPT ![t] = rd[t] - 1]
            /\ pc' = [pc EXCEPT ![t] = "idle"]
            /\ hist' = [hist EXCEPT ![t] = None]
            /\ UNCHANGED <<ids, vec, vecCap, map, wr>>

\* self.map.insert(entity.index, data) / self.remove_unchecked(entity), Ok
\* of the previous value returned and the guard dropped
StorageMutate(t) ==
    /\ pc[t] = "checked"
    /\ LET entity == hist[t][1].entity
           data == hist[t][1].data
       IN  IF data # None
           THEN /\ map' = HashInsert(map, entity.index, data[1])
                /\ last' = Call("map.set", "Ok",
                                HashGet(map, entity.index), None)
           ELSE /\ map' = HashRemove(map, entity.index)
                /\ last' = Call("map.remove", "Ok",
                                HashGet(map, entity.index), None)
    /\ rd' = [rd EXCEPT ![t] = rd[t] - 1]
    /\ pc' = [pc EXCEPT ![t] = "idle"]
    /\ hist' = [hist EXCEPT ![t] = None]
    /\ UNCHANGED <<ids, vec, vecCap, wr>>

(* ---------------------------- readers behind a waiting writer ---------- *)
\* std::sync::RwLock leaves its priority policy to the platform: "a writer
\* which is waiting to acquire the lock in write might or might not block
\* concurrent calls to read".  hist holds which of the two the build does.

Policy(writers_first) == [writers_first |-> writers_first]

\* the threads inside entities.write() that have not been granted the guard
WriteWaiting == {t \in Threads : pc[t] \in {"write_wait", "iter_write_wait"}}

\* RwLock::read is granted when no thread holds the write guard and, on a
\* lock that puts writers first, none is waiting for it
CanReadQueued(w) ==
    /\ CanRead(w)
    /\ hist.writers_first => WriteWaiting = {}

QueuedInit ==
    \E capacity \in 0 .. MaxSlots, writers_first \in BOOLEAN :
        /\ ids = EntitiesNew(capacity)
        /\ vec = Fill(capacity, None)
        /\ vecCap = ReserveCap(0, capacity)
        /\ map = HashEmpty
        /\ last = Call("new", "Unit", None, None)
        /\ pc = [t \in Threads |-> "idle"]
        /\ rd = [t \in Threads |-> 0]
        /\ wr = {}
        /\ hist = Policy(writers_first)

\* self.entities.read() returns the guard
QueuedAcquireRead(t) ==
    /\ CanReadQueued(wr)
    /\ AcquireRead(t)

\* entities.read().unwrap().iter(): the loop starts once the guard is granted
QueuedIterBegin(t) ==
    /\ CanReadQueued(wr)
    /\ IterBegin(t)

(* ---------------------------- a World call under its write guard ------- *)
\* World::spawn, World::despawn and World::clear taken apart inside the
\* guard: `let mut write = self.entities.write().unwrap()`, the registry
\* call on `write`, one storage call per field, then `write` goes out of
\* scope.  hist holds, per thread, the World call in progress.

WorldCallOf(op, id) == Some([op |-> op, id |-> id])

\* the threads inside a World call of one of the given kinds
Calling(ops) == {t \in Threads : hist[t] # None /\ hist[t][1].op \in ops}

UsedSlots == {k \in 1 .. Len(ids) : ids[k].used}

\* the slot table stays within MaxSlots when every spawn in progress is done
RoomForSpawn ==
    Cardinality(UsedSlots) + Cardinality(Calling({"spawn"})) < MaxSlots

\* generations stay within MaxGen when every despawn and clear in progress
\* is done
RoomForGeneration ==
    \A k \in 1 .. Len(ids) :
        ids[k].gen + Cardinality(Calling({"despawn", "clear"})) < MaxGen

\* World::spawn is called: self.entities.write()
WorldSpawnCall(t) ==
    /\ pc[t] = "idle"
    /\ RoomForSpawn
    /\ pc' = [pc EXCEPT ![t] = "write_wait"]
    /\ hist' = [hist EXCEPT ![t] = WorldCallOf("spawn", None)]
    /\ UNCHANGED <<rd, wr>>
    /\ UNCHANGED dataVars

\* World::despawn(id) is called: self.entities.write()
WorldDespawnCall(t, id) ==
    /\ pc[t] = "idle"
    /\ RoomForGeneration
    /\ pc' = [pc EXCEPT ![t] = "write_wait"]
    /\ hist' = [hist EXCEPT ![t] = WorldCallOf("despawn", Some(id))]
    /\ UNCHANGED <<rd, wr>>
    /\ UNCHANGED dataVars

\* World::clear is called: self.entities.write()
WorldClearCall(t) ==
    /\ pc[t] = "idle"
    /\ RoomForGeneration
    /\ pc' = [pc EXCEPT ![t] = "write_wait"]
    /\ hist' = [hist EXCEPT ![t] = WorldCallOf("clear", None)]
    /\ UNCHANGED <<rd, wr>>
    /\ UNCHANGED dataVars

\* the World call returns and `write` is dropped
ReturnWrite(t) ==
    /\ wr' = wr \ {t}
    /\ rd' = rd
    /\ pc' = [pc EXCEPT ![t] = "idle"]
    /\ hist' = [hist EXCEPT ![t] = None]

\* self.entities.write().unwrap().spawn()
WorldSpawnRun(t) ==
    /\ pc[t] = "write_held"
    /\ t \in Calling({"spawn"})
    /\ Spawn
    /\ ReturnWrite(t)

\* write.despawn(id)?: on to the fan-out, or Err returned by `?`
WorldDespawnRegistry(t) ==
    /\ pc[t] = "write_held"
    /\ t \in Calling({"despawn"})
    /\ LET id == hist[t][1].id[1]
       IN  /\ ids' = DespawnIds(ids, id)
           /\ IF DespawnOk(ids, id)
              THEN /\ pc' = [pc EXCEPT ![t] = "fanout_vec"]
                   /\ UNCHANGED <<vec, vecCap, map, last, rd, wr, hist>>
              ELSE /\ last' = Call("world.despawn", "Err", None, None)
                   /\ UNCHANGED <<vec, vecCap, map>>
                   /\ ReturnWrite(t)

\* write.clear()
WorldClearRegistry(t) ==
    /\ pc[t] = "write_held"
    /\ t \in Calling({"clear"})
    /\ ids' = ClearIds(ids)
    /\ pc' = [pc EXCEPT ![t] = "fanout_vec"]
    /\ UNCHANGED <<vec, vecCap, map, last, rd, wr, hist>>

\* FanOutVec as it would be if the fan-out went through the checked
\* VecStorage::remove, which starts with self.entities.read()
FanOutVecChecked(t) ==
    /\ pc[t] = "fanout_vec"
    /\ CanRead(wr)
    /\ vec' = IF t \in Calling({"despawn"})
              THEN DespawnVec(vec, hist[t][1].id[1])
              ELSE WorldClearVec(vec)
    /\ pc' = [pc EXCEPT ![t] = "fanout_map"]
    /\ UNCHANGED <<ids, vecCap, map, last, rd, wr, hist>>

\* self.<dense field>.remove_unchecked(id) / self.<dense field>.clear():
\* neither takes a guard of the registry
FanOutVec(t) ==
    /\ pc[t] = "fanout_vec"
    /\ vec' = IF t \in Calling({"despawn"})
              THEN DespawnVec(vec, hist[t][1].id[1])
              ELSE WorldClearVec(vec)
    /\ pc' = [pc EXCEPT ![t] = "fanout_map"]
    /\ UNCHANGED <<ids, vecCap, map, last, rd, wr, hist>>

\* self.<sparse field>.remove_unchecked(id) / self.<sparse field>.clear(),
\* then Ok(()) / () returned
FanOutMap(t) ==
    /\ pc[t] = "fanout_map"
    /\ IF t \in Calling({"despawn"})
       THEN /\ map' = DespawnMap(map, hist[t][1].id[1])
            /\ last' = Call("world.despawn", "Ok", None, None)
       ELSE /\ map' = WorldClearMap(map)
            /\ last' = Call("world.clear", "Unit", None, None)
    /\ UNCHANGED <<ids, vec, vecCap>>
    /\ ReturnWrite(t)

(* ---------------------------- the entities spawn has returned ---------- *)
\* Entities::spawn with its return value added to hist, the sequence of the
\* entities returned so far
HistorySpawn ==
    /\ Spawn
    /\ hist' = Append(hist, SpawnEntity(ids))
    /\ UNCHANGED lockVars

(* ---------------------------- specifications --------------------------- *)
\* In the three specifications below one caller makes one call at a time:
\* each call takes the registry lock and gives it back within the step, so
\* the lock and the threads' positions are as they were after every step.

\* every public operation, on the World and on its parts
Next ==
    \/ Spawn /\ UNCHANGED otherVars
    \/ \E id \in Handles : Despawn(id) /\ UNCHANGED otherVars
    \/ Clear /\ UNCHANGED otherVars
    \/ \E id \in Handles : WorldDespawn(id) /\ UNCHANGED otherVars
    \/ WorldClear /\ UNCHANGED otherVars
    \/ \E entity \in Handles, data \in Data :
          VecSet(entity, data) /\ UNCHANGED otherVars
    \/ \E entity \in Handles : VecRemove(entity) /\ UNCHANGED otherVars
    \/ \E entity \in Handles : VecRemoveUnchecked(entity) /\ UNCHANGED otherVars
    \/ VecClear /\ UNCHANGED otherVars
    \/ \E entity \in Handles, data \in Data :
          MapSet(entity, data) /\ UNCHANGED otherVars
    \/ \E entity \in Handles : MapRemove(entity) /\ UNCHANGED otherVars
    \/ \E entity \in Handles : MapRemoveUnchecked(entity) /\ UNCHANGED otherVars
    \/ MapClear /\ UNCHANGED otherVars

Spec == Init /\ [][Next]_vars

\* the registry on its own: Entities::spawn / despawn / clear
RegistryNext ==
    \/ Spawn /\ UNCHANGED otherVars
    \/ \E id \in Handles : Despawn(id) /\ UNCHANGED otherVars
    \/ Clear /\ UNCHANGED otherVars

RegistrySpec == Init /\ [][RegistryNext]_vars

\* a World driven through its own spawn / despawn / clear and through the
\* checked operations of its storages
WorldNext ==
    \/ Spawn /\ UNCHANGED otherVars
    \/ \E id \in Handles : WorldDespawn(id) /\ UNCHANGED otherVars
    \/ WorldClear /\ UNCHANGED otherVars
    \/ \E entity \in Handles, data \in Data :
          VecSet(entity, data) /\ UNCHANGED otherVars
    \/ \E entity \in Handles : VecRemove(entity) /\ UNCHANGED otherVars
    \/ VecClear /\ UNCHANGED otherVars
    \/ \E entity \in Handles, data \in Data :
          MapSet(entity, data) /\ UNCHANGED otherVars
    \/ \E entity \in Handles : MapRemove(entity) /\ UNCHANGED otherVars
    \/ MapClear /\ UNCHANGED otherVars

WorldSpec == Init /\ [][WorldNext]_vars

\* threads that share the registry handle and call into the registry and
\* the sparse storage concurrently
LockNext ==
    \E t \in Threads :
        \/ RequestWrite(t)
        \/ RequestWriteInIter(t)
        \/ AcquireWrite(t)
        \/ LockedSpawn(t)
        \/ \E id \in Handles : LockedDespawn(t, id)
        \/ LockedClear(t)
        \/ RequestRead(t)
        \/ AcquireRead(t)
        \/ \E entity \in Handles, data \in Data : LockedMapSet(t, entity, data)
        \/ \E entity \in Handles : LockedMapRemove(t, entity)
        \/ IterBegin(t)
        \/ IterEnd(t)

LockSpec == Init /\ [][LockNext]_vars

\* a dense and a sparse storage over one registry, given the same calls
PairNext ==
    \/ Spawn /\ UNCHANGED otherVars
    \/ \E id \in Handles : Despawn(id) /\ UNCHANGED otherVars
    \/ \E entity \in Handles : PairGet(entity) /\ UNCHANGED otherVars
    \/ \E entity \in Handles : PairGetMut(entity) /\ UNCHANGED otherVars
    \/ \E entity \in Handles, data \in Data :
          PairSet(entity, data) /\ UNCHANGED otherVars
    \/ \E entity \in Handles : PairRemove(entity) /\ UNCHANGED otherVars
    \/ \E entity \in Handles : PairRemoveUnchecked(entity) /\ UNCHANGED otherVars
    \/ PairClear /\ UNCHANGED otherVars

PairSpec == Init /\ [][PairNext]_vars

\* a World that is given its components through register
RegisterNext ==
    \/ Spawn /\ UNCHANGED otherVars
    \/ \E id \in Handles : WorldDespawn(id) /\ UNCHANGED otherVars
    \/ WorldClear /\ UNCHANGED otherVars
    \/ \E entity \in Handles, component \in Data :
          WorldRegisterVec(entity, component) /\ UNCHANGED otherVars
    \/ \E entity \in Handles, component \in Data :
          WorldRegisterMap(entity, component) /\ UNCHANGED otherVars
    \/ \E entity \in Handles : VecRemove(entity) /\ UNCHANGED otherVars
    \/ \E entity \in Handles : MapRemove(entity) /\ UNCHANGED otherVars

RegisterSpec == Init /\ [][RegisterNext]_vars

\* one slot driven through despawn / respawn cycles around the end of the
\* generation's range
WrapNext ==
    \/ WrapSpawn
    \/ \E id \in WrapHandles : WrapDespawn(id)
    \/ WrapClear

WrapSpec == WrapInit /\ [][WrapNext]_vars

\* storage set / remove on one thread against registry spawn / despawn on
\* another, every call split at its lock and at its validation
RaceNext ==
    \E t \in Threads :
        \/ RequestWrite(t)
        \/ AcquireWrite(t)
        \/ LockedSpawn(t)
        \/ \E id \in Handles : LockedDespawn(t, id)
        \/ \E entity \in Handles, data \in Data :
              SetRequestRead(t, entity, data)
        \/ \E entity \in Handles : RemoveRequestRead(t, entity)
        \/ AcquireRead(t)
        \/ StorageValidate(t)
        \/ StorageMutate(t)

RaceSpec == RaceInit /\ [][RaceNext]_vars

\* iterations with storage calls inside them on one thread, registry calls
\* on another, on a lock of either priority policy
QueuedNext ==
    \E t \in Threads :
        \/ RequestWrite(t)
        \/ AcquireWrite(t)
        \/ LockedSpawn(t)
        \/ \E id \in Handles : LockedDespawn(t, id)
        \/ QueuedIterBegin(t)
        \/ IterEnd(t)
        \/ RequestRead(t)
        \/ QueuedAcquireRead(t)
        \/ \E entity \in Handles, data \in Data : LockedMapSet(t, entity, data)
        \/ \E entity \in Handles : LockedMapRemove(t, entity)

QueuedSpec == QueuedInit /\ [][QueuedNext]_vars

\* World spawn / despawn / clear split at the lock and at every call made
\* under the guard, sparse storage set on the side
FanOutNext ==
    \E t \in Threads :
        \/ WorldSpawnCall(t)
        \/ \E id \in Handles : WorldDespawnCall(t, id)
        \/ WorldClearCall(t)
        \/ AcquireWrite(t)
        \/ WorldSpawnRun(t)
        \/ WorldDespawnRegistry(t)
        \/ WorldClearRegistry(t)
        \/ FanOutVec(t)
        \/ FanOutMap(t)
        \/ RequestRead(t)
        \/ AcquireRead(t)
        \/ \E entity \in Handles, data \in Data : LockedMapSet(t, entity, data)

\* a thread that is inside a World call and can take its next step takes it
Running(t) ==
    WF_vars(\/ WorldSpawnRun(t)
            \/ WorldDespawnRegistry(t)
            \/ WorldClearRegistry(t)
            \/ FanOutVec(t)
            \/ FanOutMap(t))

FanOutSpec ==
    /\ RaceInit
    /\ [][FanOutNext]_vars
    /\ \A t \in Threads : Running(t)

\* the registry alone, with the history of what spawn returned; the
\* generations stay within 0 .. MaxGen, far from the end of their range
HistoryNext ==
    \/ HistorySpawn
    \/ \E id \in Handles : Despawn(id) /\ UNCHANGED otherVars
    \/ Clear /\ UNCHANGED otherVars

HistorySpec == Init /\ [][HistoryNext]_vars

(* ---------------------------- properties ------------------------------- *)
\* alive, as the data model states it: the index is inside the slot table
\* and the slot is Used with the handle's generation
Alive(s, id) ==
    /\ id.index < Len(s)
    /\ s[id.index + 1] = Used(id.generation)

\* the indices of the Unused slots
FreeIndices(s) == {i \in 0 .. (Len(s) - 1) : ~s[i + 1].used}

\* C2: the Entity a spawn returns exists right after the spawn, and a handle
\* whose despawn returned Ok does not exist right after that despawn.
C2_SpawnedAliveDespawnedDead ==
    [][ /\ last'.op = "spawn" => exists(ids', last'.ent[1])
        /\ \A id \in Handles :
              (Despawn(id) /\ last'.ret = "Ok") => ~exists(ids', id)
      ]_vars

\* C2 witness: a despawn has just succeeded on a slot that was spawned and
\* despawned before (its generation has reached 2)
C2_Witness ==
    /\ last.op = "despawn"
    /\ last.ret = "Ok"
    /\ \E k \in 1 .. Len(ids) : ids[k] = Unused(2)

\* C6: spawn takes the lowest-index Unused slot, keeps its generation and the
\* table length, and returns {index, generation}; with no Unused slot it
\* appends Used(0) and returns {old length, 0}.
C6_SpawnLowestUnused ==
    [][ last'.op = "spawn" =>
          IF FreeIndices(ids) # {}
          THEN LET i == CHOOSE i \in FreeIndices(ids) :
                            \A j \in FreeIndices(ids) : i <= j
                   g == ids[i + 1].gen
               IN /\ last'.ent = Some(Entity(i, g))
                  /\ ids' = [ids EXCEPT ![i + 1] = Used(g)]
                  /\ Len(ids') = Len(ids)
          ELSE /\ last'.ent = Some(Entity(Len(ids), 0))
               /\ ids' = Append(ids, Used(0))
      ]_vars

\* C6 witness: spawn has just recycled slot 0 while slot 1 was Unused too
C6_Witness ==
    /\ last.op = "spawn"
    /\ last.ent = Some(Entity(0, 1))
    /\ Len(ids) = 2
    /\ ids[1] = Used(1)
    /\ ids[2] = Unused(1)

\* C7: registry despawn returns Ok exactly for an alive handle; for any other
\* handle (index out of range, slot Unused, generation different) it returns
\* NoSuchEntity and leaves every slot as it was.
C7_DespawnOnlyAlive ==
    [][ \A id \in Handles :
          Despawn(id) =>
              IF Alive(ids, id)
              THEN last'.ret = "Ok"
              ELSE last'.ret = "Err" /\ ids' = ids
      ]_vars

\* C7 witness: a despawn has just failed on a table whose only slot was
\* despawned before, so the handle that despawned it fails now
C7_Witness ==
    /\ last.op = "despawn"
    /\ last.ret = "Err"
    /\ ids = << Unused(1) >>

\* C8: exists is true exactly for the alive handles; an out-of-range index
\* and an Unused slot (even of the handle's generation) give false.
C8_ExistsIffAlive ==
    \A id \in Handles : exists(ids, id) <=> Alive(ids, id)

\* C8 witness: one handle exists, one names an Unused slot of its own
\* generation, one lies one past the end of the table
C8_Witness ==
    /\ \E id \in Handles : exists(ids, id)
    /\ \E id \in Handles :
          /\ id.index < Len(ids)
          /\ ids[id.index + 1] = Unused(id.generation)
          /\ ~exists(ids, id)
    /\ ~exists(ids, Entity(Len(ids), 0))

\* the slot of handle id is occupied again, by the next generation
Respawned(s, id) ==
    /\ id.index < Len(s)
    /\ s[id.index + 1] = Used(id.generation + 1)

\* the calls that can return NoSuchEntity from a storage
CheckedStorageOps == {"vec.set", "map.set", "vec.remove", "map.remove"}

\* C3: despawning {i, g} leaves slot i Unused(g + 1); a spawn that recycles
\* that slot returns {i, g + 1}; from then on the old handle {i, g} fails
\* exists, and set and remove called with it on either storage return
\* NoSuchEntity (a checked storage call that does not return NoSuchEntity
\* was not made with such a handle).
C3_RespawnBumpsGeneration ==
    /\ [](\A id \in Handles : Respawned(ids, id) => ~exists(ids, id))
    /\ [][ /\ (last'.op \in {"despawn", "world.despawn"} /\ last'.ret = "Ok")
                => \A id \in Handles :
                       (Despawn(id) \/ WorldDespawn(id))
                         => ids'[id.index + 1] = Unused(id.generation + 1)
           /\ last'.op = "spawn" =>
                \A id \in Handles :
                    ( /\ id.index < Len(ids)
                      /\ ids[id.index + 1] = Unused(id.generation + 1)
                      /\ last'.ent[1].index = id.index )
                      => /\ last'.ent =
                               Some(Entity(id.index, id.generation + 1))
                         /\ Respawned(ids', id)
           /\ (last'.op \in CheckedStorageOps /\ last'.ret # "Err") =>
                \A id \in Handles :
                    Respawned(ids, id)
                      => /\ \A data \in Data :
                               ~VecSet(id, data) /\ ~MapSet(id, data)
                         /\ ~VecRemove(id)
                         /\ ~MapRemove(id)
         ]_vars

\* C3 witness: a remove has just returned NoSuchEntity while slot 0, the
\* only slot, is occupied by generation 1 and holds a value in both storages
C3_Witness ==
    /\ last.op = "map.remove"
    /\ last.ret = "Err"
    /\ ids = << Used(1) >>
    /\ VecGet(Entity(0, 1)) # None
    /\ MapGet(Entity(0, 1)) # None

\* C9: on either storage, set(e, v) on a live entity returns Ok with the
\* value get(e) gave just before the call, and get(e) gives v afterwards.
C9_SetGetRoundTrip ==
    [][ /\ last'.op = "vec.set" =>
              \A entity \in Handles, data \in Data :
                  (Alive(ids, entity) /\ VecSet(entity, data))
                    => /\ last'.ret = "Ok"
                       /\ last'.val = VecGet(entity)
                       /\ VecStorageGet(ids', vec', entity) = Some(data)
        /\ last'.op = "map.set" =>
              \A entity \in Handles, data \in Data :
                  (Alive(ids, entity) /\ MapSet(entity, data))
                    => /\ last'.ret = "Ok"
                       /\ last'.val = MapGet(entity)
                       /\ MapStorageGet(ids', map', entity) = Some(data)
      ]_vars

\* C9 witness: a set on the dense storage has just overwritten 1 by 2 for
\* the only entity that holds a value, and returned the 1
C9_Witness ==
    /\ last.op = "vec.set"
    /\ last.ret = "Ok"
    /\ last.val = Some(1)
    /\ \E e \in Handles :
          /\ VecGet(e) = Some(2)
          /\ \A k \in 1 .. Len(vec) : vec[k] # None => k = e.index + 1

\* C10: on either storage, set on a handle that is not alive returns
\* NoSuchEntity and changes nothing: not the storage's contents, not the
\* dense storage's backing length or capacity, not the other storage, not
\* the registry (a set that did anything else was made with an alive handle).
C10_SetDeadNoMutation ==
    [][ last'.op \in {"vec.set", "map.set"} =>
          \/ /\ last'.ret = "Err"
             /\ vec' = vec
             /\ Len(vec') = Len(vec)
             /\ vecCap' = vecCap
             /\ map' = map
             /\ ids' = ids
          \/ \A entity \in Handles, data \in Data :
                (VecSet(entity, data) \/ MapSet(entity, data))
                  => Alive(ids, entity)
      ]_vars

\* C10 witness: a set on the dense storage has just failed in a state where
\* a wrong-generation handle ({0, 0}), an Unused slot (1) and an index past
\* the table (2) all exist, the backing Vec being shorter than the table
C10_Witness ==
    /\ last.op = "vec.set"
    /\ last.ret = "Err"
    /\ ids = << Used(1), Unused(1) >>
    /\ Len(vec) = 1
    /\ vec[1] = Some(1)

\* the value a storage shows through handle h changed to a present one
ShownVec(h) ==
    /\ VecStorageGet(ids', vec', h) # None
    /\ VecStorageGet(ids', vec', h) # VecGet(h)

ShownMap(h) ==
    /\ MapStorageGet(ids', map', h) # None
    /\ MapStorageGet(ids', map', h) # MapGet(h)

\* C1: in a World driven by spawn, World despawn / clear and storage
\* set / remove / clear, get(h) starts absent for every handle h, turns to a
\* present value only in a set(h, v) through that same handle and then to v,
\* and after any set(h, v) it is absent or v: get(h) is absent or the value
\* most recently set through h, never one set through another handle.
\* (A step that changes neither the registry nor the storage shows nothing
\* new, so the handles are only gone through on the other steps.)
C1_GetOnlyOwnValue ==
    /\ \A h \in Handles : VecGet(h) = None /\ MapGet(h) = None
    /\ [][ /\ (ids' # ids \/ vec' # vec) =>
                \A h \in Handles :
                    ShownVec(h) =>
                        \E v \in Data :
                            /\ VecSet(h, v)
                            /\ VecStorageGet(ids', vec', h) = Some(v)
           /\ (ids' # ids \/ map' # map) =>
                \A h \in Handles :
                    ShownMap(h) =>
                        \E v \in Data :
                            /\ MapSet(h, v)
                            /\ MapStorageGet(ids', map', h) = Some(v)
           /\ last'.op = "vec.set" =>
                \A h \in Handles :
                    \/ VecStorageGet(ids', vec', h) = None
                    \/ \A v \in Data :
                          VecSet(h, v) =>
                              VecStorageGet(ids', vec', h) = Some(v)
           /\ last'.op = "map.set" =>
                \A h \in Handles :
                    \/ MapStorageGet(ids', map', h) = None
                    \/ \A v \in Data :
                          MapSet(h, v) =>
                              MapStorageGet(ids', map', h) = Some(v)
         ]_vars

\* C1 witness: slot 0 is in its second life and its entity holds a value in
\* both storages, while the handle of the first life shows nothing
C1_Witness ==
    /\ Len(ids) >= 1
    /\ ids[1] = Used(1)
    /\ VecGet(Entity(0, 1)) = Some(2)
    /\ MapGet(Entity(0, 1)) = Some(2)
    /\ VecGet(Entity(0, 0)) = None
    /\ MapGet(Entity(0, 0)) = None

\* C4: a successful World despawn leaves both storages absent at the
\* despawned index; the entity a spawn returns shows absent on both
\* storages; and absent turns to present for a live entity only in a set
\* through its handle.
C4_DespawnClearsStorages ==
    [][ /\ (last'.op = "world.despawn" /\ last'.ret = "Ok") =>
              \A id \in Handles :
                  WorldDespawn(id)
                    => /\ VecTaken(vec', id.index) = None
                       /\ HashGet(map', id.index) = None
        /\ last'.op = "spawn"
              => /\ VecStorageGet(ids', vec', last'.ent[1]) = None
                 /\ MapStorageGet(ids', map', last'.ent[1]) = None
        /\ vec' # vec =>
              \A h \in Handles :
                  (Alive(ids, h) /\ VecGet(h) = None
                     /\ VecStorageGet(ids', vec', h) # None)
                    => \E v \in Data : VecSet(h, v)
        /\ map' # map =>
              \A h \in Handles :
                  (Alive(ids, h) /\ MapGet(h) = None
                     /\ MapStorageGet(ids', map', h) # None)
                    => \E v \in Data : MapSet(h, v)
      ]_vars

\* C4 witness: spawn has just recycled slot 0 (generation 1) and the new
\* entity shows absent, in a World whose other entity holds a value in both
\* storages
C4_Witness ==
    /\ last.op = "spawn"
    /\ last.ent = Some(Entity(0, 1))
    /\ VecGet(Entity(0, 1)) = None
    /\ MapGet(Entity(0, 1)) = None
    /\ VecGet(Entity(1, 0)) # None
    /\ MapGet(Entity(1, 0)) # None

\* the indices at which a storage holds a present value
VecPresent == {i \in 0 .. (Len(vec) - 1) : vec[i + 1] # None}

MapPresent == DOMAIN map

\* no storage holds a value at an index whose slot is Unused or lies beyond
\* the slot table
NoDeadComponents ==
    \A i \in VecPresent \cup MapPresent :
        i < Len(ids) /\ ids[i + 1].used

\* C5 as stated: under registry spawn / despawn / clear issued through the
\* shared handle and storage set / remove / remove_unchecked / clear, no
\* storage holds a present value at a dead index.
C5_NoDeadComponents == NoDeadComponents

\* C5 amended: no storage holds a present value at a dead index initially,
\* and every operation other than a despawn or clear issued on the registry
\* alone (without the World's storage fan-out) keeps it so.
C5_NoDeadComponentsWithFanOut ==
    /\ NoDeadComponents
    /\ [][ (last'.op \notin {"despawn", "clear"} /\ NoDeadComponents)
              => NoDeadComponents' ]_vars

\* C5 witness: a World despawn has just succeeded, a slot is Unused with
\* generation 1, no dead index holds a value, and a live entity still holds
\* one in both storages
C5_Witness ==
    /\ last.op = "world.despawn"
    /\ last.ret = "Ok"
    /\ NoDeadComponents
    /\ \E k \in 1 .. Len(ids) : ids[k] = Unused(1)
    /\ VecPresent # {}
    /\ MapPresent # {}

\* C11: on either storage, remove(e) on a live entity returns Ok with the
\* value get(e) gave just before the call (absent when nothing was stored,
\* never NoSuchEntity), get(e) gives absent afterwards, and a set through e
\* in the state after the remove would succeed with absent as prior value.
C11_RemoveThenAbsent ==
    [][ /\ last'.op = "vec.remove" =>
              \A entity \in Handles :
                  (Alive(ids, entity) /\ VecRemove(entity))
                    => /\ last'.ret = "Ok"
                       /\ last'.val = VecGet(entity)
                       /\ VecStorageGet(ids', vec', entity) = None
                       /\ exists(ids', entity)
                       /\ VecSetPrev(vec', entity.index) = None
        /\ last'.op = "map.remove" =>
              \A entity \in Handles :
                  (Alive(ids, entity) /\ MapRemove(entity))
                    => /\ last'.ret = "Ok"
                       /\ last'.val = MapGet(entity)
                       /\ MapStorageGet(ids', map', entity) = None
                       /\ exists(ids', entity)
                       /\ HashGet(map', entity.index) = None
      ]_vars

\* C11 witness: a remove on the dense storage has just handed back the 2 of
\* the only live entity, which now shows absent there and still holds its
\* value in the sparse storage
C11_Witness ==
    /\ last.op = "vec.remove"
    /\ last.ret = "Ok"
    /\ last.val = Some(2)
    /\ ids = << Used(1) >>
    /\ VecGet(Entity(0, 1)) = None
    /\ MapGet(Entity(0, 1)) = Some(1)

\* C12: in every reachable state, get and get_mut of both storages give
\* absent for every handle that is not alive, whatever the backing Vec or
\* HashMap holds at the handle's index.
C12_DeadGetAbsent ==
    \A h \in Handles :
        ~Alive(ids, h)
          => /\ VecGet(h) = None
             /\ VecGetMut(h) = None
             /\ MapGet(h) = None
             /\ MapGetMut(h) = None

\* C12 witness: slot 0 is Unused after one life and both backing structures
\* still hold a value at index 0, which neither the old handle nor the
\* handle of the slot's current generation shows
C12_Witness ==
    /\ Len(ids) >= 1
    /\ ids[1] = Unused(1)
    /\ VecTaken(vec, 0) # None
    /\ HashGet(map, 0) # None
    /\ VecGet(Entity(0, 0)) = None
    /\ MapGetMut(Entity(0, 1)) = None

\* C13: a set on the dense storage through an alive handle whose index is at
\* or beyond the backing Vec's length returns Ok(absent); get gives the
\* inserted value afterwards; the new length is max(2 * old capacity,
\* index + 1); every position created, other than the entity's own, is
\* absent; and every position that existed before keeps its entry.
C13_SetGrows ==
    [][ last'.op = "vec.set" =>
          \A entity \in Handles, data \in Data :
              ( /\ Alive(ids, entity)
                /\ entity.index >= Len(vec)
                /\ VecSet(entity, data) )
                => /\ last'.ret = "Ok"
                   /\ last'.val = None
                   /\ VecStorageGet(ids', vec', entity) = Some(data)
                   /\ Len(vec') = Max(2 * vecCap, entity.index + 1)
                   /\ \A k \in (Len(vec) + 1) .. Len(vec') :
                          k # entity.index + 1 => vec'[k] = None
                   /\ \A k \in 1 .. Len(vec) : vec'[k] = vec[k]
      ]_vars

\* C13 witness: a set at index 1 has just grown the backing Vec from length
\* 1 and capacity 4 to length 8, the entry of index 0 kept its value and the
\* six positions behind index 1 are absent
C13_Witness ==
    /\ last.op = "vec.set"
    /\ last.ret = "Ok"
    /\ last.val = None
    /\ Len(vec) = 8
    /\ vecCap = 8
    /\ vec[1] = Some(1)
    /\ vec[2] = Some(2)
    /\ \A k \in 3 .. 8 : vec[k] = None
    /\ VecGet(Entity(1, 0)) = Some(2)

\* C14: registry clear keeps the table length, turns every Used(g) slot into
\* Unused(g + 1) and leaves every Unused slot as it was; no handle that
\* existed before the clear exists after it; and when slot 0 was Used(g), a
\* spawn in the state after the clear returns {0, g + 1}.
C14_ClearAdvancesUsed ==
    [][ last'.op = "clear" =>
          /\ Len(ids') = Len(ids)
          /\ \A k \in 1 .. Len(ids) :
                IF ids[k].used
                THEN ids'[k] = Unused(ids[k].gen + 1)
                ELSE ids'[k] = ids[k]
          /\ \A id \in Handles : exists(ids, id) => ~exists(ids', id)
          /\ (Len(ids) >= 1 /\ ids[1].used)
                => SpawnEntity(ids') = Entity(0, ids[1].gen + 1)
      ]_vars

\* C14 witness: a clear has just left a two-slot table with slot 0 Unused at
\* generation 2 and slot 1 Unused at generation 1, so that the next spawn
\* returns {0, 2}
C14_Witness ==
    /\ last.op = "clear"
    /\ ids = << Unused(2), Unused(1) >>
    /\ SpawnEntity(ids) = Entity(0, 2)

\* C15: in every reachable registry state, the entities iter yields are
\* exactly the handles for which exists is true, in strictly ascending index
\* order (so each once), each with the generation of its Used slot; no
\* Unused slot is yielded.  (iter takes the registry by shared reference and
\* is a function of the slot table.)
C15_IterYieldsAlive ==
    LET it == iter(ids)
    IN /\ {it[k] : k \in 1 .. Len(it)} = {h \in Handles : exists(ids, h)}
       /\ \A j \in 1 .. Len(it), k \in 1 .. Len(it) :
              j < k => it[j].index < it[k].index
       /\ \A k \in 1 .. Len(it) :
              /\ it[k].index < Len(ids)
              /\ ids[it[k].index + 1] = Used(it[k].generation)
       /\ Len(it) = Cardinality({i \in 1 .. Len(ids) : ids[i].used})

\* C15 witness: slot 0 is Unused and slot 1 is in its second life; iter
\* yields the one entity {1, 1}
C15_Witness ==
    /\ ids = << Unused(1), Used(1) >>
    /\ iter(ids) = << Entity(1, 1) >>

\* C16: a storage's clear leaves get absent on that storage for every
\* handle and leaves the registry and the other storage as they were; the
\* cleared storage stays usable: in the state after the clear, a set through
\* any alive handle finds the entity, hands back absent as prior value, and
\* get gives the value set.
C16_StorageClearFrame ==
    [][ /\ last'.op = "vec.clear" =>
              /\ \A h \in Handles : VecStorageGet(ids', vec', h) = None
              /\ ids' = ids
              /\ map' = map
              /\ \A h \in Handles, data \in Data :
                    Alive(ids', h)
                      => /\ exists(ids', h)
                         /\ VecSetPrev(vec', h.index) = None
                         /\ VecStorageGet(ids',
                                VecSetVec(vec', vecCap', h.index, data), h)
                              = Some(data)
        /\ last'.op = "map.clear" =>
              /\ \A h \in Handles : MapStorageGet(ids', map', h) = None
              /\ ids' = ids
              /\ vec' = vec
              /\ vecCap' = vecCap
              /\ \A h \in Handles, data \in Data :
                    Alive(ids', h)
                      => /\ exists(ids', h)
                         /\ HashGet(map', h.index) = None
                         /\ MapStorageGet(ids',
                                HashInsert(map', h.index, data), h)
                              = Some(data)
      ]_vars

\* C16 witness: the dense storage has just been cleared (its capacity of 4
\* kept) while two entities are alive and the sparse storage still holds a
\* value for each of them
C16_Witness ==
    /\ last.op = "vec.clear"
    /\ vec = << >>
    /\ vecCap = 4
    /\ ids = << Used(0), Used(1) >>
    /\ MapGet(Entity(0, 0)) = Some(1)
    /\ MapGet(Entity(1, 1)) = Some(2)

\* the threads that hold a read guard: inside a storage call past its
\* self.entities.read(), or inside an iteration
Reading == {t \in Threads : pc[t] \in ReadHeld \cup InIter}

\* the threads that run spawn / despawn / clear under the write guard
Writing == {t \in Threads : pc[t] \in WriteHeld}

\* C17: in every reachable state at most one thread holds the write guard,
\* and while a thread holds it (running registry spawn / despawn / clear) no
\* other thread holds a read guard, for a storage call's validation or for
\* an iteration; the threads' positions agree with the guards the lock has
\* handed out.
C17_ReadersOrOneWriter ==
    /\ Cardinality(wr) <= 1
    /\ Cardinality(Writing) <= 1
    /\ Writing \subseteq wr
    /\ \A t \in Reading : rd[t] >= 1
    /\ \A t \in wr : \A u \in Threads \ {t} : rd[u] = 0 /\ u \notin Reading

\* C17 witness: two threads read at once, one in an iteration and one in a
\* storage call made from inside its own iteration, neither of them writing
C17_Witness ==
    /\ pc[1] = "iter"
    /\ pc[2] = "iter_read_held"
    /\ rd[1] = 1
    /\ rd[2] = 2
    /\ wr = {}

\* C18: a thread that asks for the write guard from inside its own
\* iteration is never granted it, and from then on it stays where it is,
\* waiting with the iteration's read guard still held: no later step of any
\* thread moves it.
C18_WriteInIterBlocksForever ==
    /\ [](\A t \in Threads : pc[t] # "iter_write_held" /\ ~(t \in wr /\ rd[t] > 0))
    /\ [][ \A t \in Threads :
              pc[t] = "iter_write_wait"
                => /\ pc'[t] = "iter_write_wait"
                   /\ rd'[t] = rd[t]
                   /\ rd[t] >= 1
          ]_vars

\* C18 witness: thread 1 waits for the write guard inside its own iteration
\* and thread 2, which asked for the write guard from outside, waits behind
\* thread 1's read guard
C18_Witness ==
    /\ pc[1] = "iter_write_wait"
    /\ rd[1] = 1
    /\ pc[2] = "write_wait"
    /\ wr = {}

\* C19: with a dense and a sparse storage side by side over one registry
\* and handed the same spawn / despawn / get / get_mut / set / remove /
\* remove_unchecked / clear calls, every call returns the same result from
\* both: the same value, absent, or NoSuchEntity.
C19_StoragesAgree ==
    last.ret = "Pair" => last.val[1] = last.val[2]

\* C19 witness: a remove_unchecked through the stale handle {0, 0} has just
\* handed back, from both storages, the value 2 that the entity now
\* occupying slot 0 had stored
C19_Witness ==
    /\ last.op = "pair.remove_unchecked"
    /\ last.val = << Result("Option", Some(2)), Result("Option", Some(2)) >>
    /\ Len(ids) >= 1
    /\ ids[1] = Used(1)
    /\ VecTaken(vec, 0) = None
    /\ HashGet(map, 0) = None
    /\ Len(vec) = 8

\* C20: World::register(entity, component) for the dense (sparse)
\* component type is a set(entity, component) on the dense (sparse) storage,
\* with that call's effect and result: with a handle that is not alive it
\* returns NoSuchEntity and changes nothing; with an alive one it returns Ok
\* with the value get gave before and get gives the component afterwards;
\* either way the other storage and the registry are as they were.
C20_RegisterIsSet ==
    [][ last'.op \in {"vec.set", "map.set"} =>
          \A entity \in Handles, component \in Data :
              /\ WorldRegisterVec(entity, component)
                    => /\ VecSet(entity, component)
                       /\ map' = map
                       /\ ids' = ids
                       /\ IF Alive(ids, entity)
                          THEN /\ last'.ret = "Ok"
                               /\ last'.val = VecGet(entity)
                               /\ VecStorageGet(ids', vec', entity)
                                     = Some(component)
                          ELSE /\ last'.ret = "Err"
                               /\ vec' = vec
                               /\ vecCap' = vecCap
              /\ WorldRegisterMap(entity, component)
                    => /\ MapSet(entity, component)
                       /\ vec' = vec
                       /\ vecCap' = vecCap
                       /\ ids' = ids
                       /\ IF Alive(ids, entity)
                          THEN /\ last'.ret = "Ok"
                               /\ last'.val = MapGet(entity)
                               /\ MapStorageGet(ids', map', entity)
                                     = Some(component)
                          ELSE /\ last'.ret = "Err"
                               /\ map' = map
      ]_vars

\* C20 witness: a register of the sparse component has just replaced the 1
\* of entity {0, 1} by 2 and handed the 1 back, while the dense storage
\* still holds the 1 registered there for the same entity
C20_Witness ==
    /\ last.op = "map.set"
    /\ last.ret = "Ok"
    /\ last.val = Some(1)
    /\ MapGet(Entity(0, 1)) = Some(2)
    /\ VecGet(Entity(0, 1)) = Some(1)

\* the handle slot 0 was first spawned with
FirstHandle == Entity(0, hist.gen0)

\* C21: despawn and clear advance the generation modulo 2^32 and never
\* fail for it: Used(2^32 - 1) (held as -1) becomes Unused(0), a despawn
\* through the live handle returns Ok, and after c cycles the generation of
\* slot 0 is its first generation plus c modulo 2^32.  So the handle of the
\* first spawn passes exists after 0 cycles and again once 2^32 cycles are
\* complete and the slot is in use, and after any number of cycles in
\* between it does not.
C21_GenerationWraps ==
    /\ [](U32Limbs(ids[1].gen) = AddMod(U32Limbs(hist.gen0), hist.cycles))
    /\ [](exists(ids, FirstHandle)
            => hist.cycles \in {<< 0, 0 >>, << Limb, 0 >>})
    /\ []((hist.cycles = << Limb, 0 >> /\ ids[1].used)
            => exists(ids, FirstHandle))
    /\ [][ /\ (ids[1] = Used(-1) /\ last'.op \in {"despawn", "clear"})
                => \/ ids'[1] = Unused(0)
                   \/ last'.ret = "Err" /\ ids' = ids
           /\ \A id \in WrapHandles :
                 (Alive(ids, id) /\ WrapDespawn(id)) => last'.ret = "Ok"
         ]_vars

\* C21 witness: 2^32 cycles are complete, the slot is in use at the
\* generation 2^32 - 1 it was first spawned with, and the first handle
\* exists again
C21_Witness ==
    /\ hist.cycles = << Limb, 0 >>
    /\ hist.gen0 = -1
    /\ ids[1] = Used(-1)
    /\ exists(ids, FirstHandle)

\* C22: the slot table starts with every slot Unused(0) (as many as the
\* initial capacity), its length never decreases, despawn and clear leave
\* the length as it is, and spawn adds exactly one slot when no slot is
\* Unused and none otherwise.
C22_LengthNeverDecreases ==
    /\ \A k \in 1 .. Len(ids) : ids[k] = Unused(0)
    /\ [][ /\ Len(ids') >= Len(ids)
           /\ last'.op \in {"despawn", "clear"} => Len(ids') = Len(ids)
           /\ last'.op = "spawn" =>
                 Len(ids') = IF FreeIndices(ids) = {}
                             THEN Len(ids) + 1
                             ELSE Len(ids)
         ]_vars

\* C22 witness: a spawn has just added slot 1 to a table whose slot 0 is in
\* its second life, and slot 1 has since kept its place
C22_Witness ==
    /\ last.op = "spawn"
    /\ last.ent = Some(Entity(1, 0))
    /\ ids = << Used(1), Used(0) >>

\* the slots of the table that a step changes
ChangedSlots == {k \in 1 .. Len(ids) : ids'[k] # ids[k]}

\* C23: a step changes a slot only from Unused(g) to Used(g), in a spawn,
\* or from Used(g) to Unused(g + 1), in a despawn or a clear (so never the
\* generation in a spawn, never Used to Used or Unused to Unused); a spawn
\* changes exactly one slot or, when it adds a slot, none of those there
\* were; a despawn that returns Ok changes exactly one slot.
C23_SlotLifecycle ==
    [][ /\ \A k \in ChangedSlots :
              \/ /\ ~ids[k].used
                 /\ ids'[k] = Used(ids[k].gen)
                 /\ last'.op = "spawn"
              \/ /\ ids[k].used
                 /\ ids'[k] = Unused(ids[k].gen + 1)
                 /\ last'.op \in {"despawn", "clear"}
        /\ last'.op = "spawn" =>
              IF Len(ids') = Len(ids)
              THEN Cardinality(ChangedSlots) = 1
              ELSE ChangedSlots = {} /\ ids' = Append(ids, Used(0))
        /\ (last'.op = "despawn" /\ last'.ret = "Ok") =>
              Cardinality(ChangedSlots) = 1 /\ Len(ids') = Len(ids)
      ]_vars

\* C23 witness: a despawn has just ended the second life of slot 0, next
\* to a slot 1 that is in its first life and was left alone
C23_Witness ==
    /\ last.op = "despawn"
    /\ last.ret = "Ok"
    /\ ids = << Unused(2), Used(0) >>

\* C24: when a live entity's index lies at or beyond the length of the
\* dense storage's backing Vec, get and get_mut give absent and remove
\* returns Ok(absent), and the call leaves the backing Vec, its length and
\* its capacity as they were.
C24_BeyondLengthIsAbsent ==
    [][ last'.op \in {"pair.get", "pair.get_mut", "pair.remove"} =>
          \A entity \in Handles :
              ( /\ Alive(ids, entity)
                /\ entity.index >= Len(vec)
                /\ \/ PairGet(entity)
                   \/ PairGetMut(entity)
                   \/ PairRemove(entity) )
                => /\ last'.val[1] = IF last'.op = "pair.remove"
                                     THEN Result("Ok", None)
                                     ELSE Result("Option", None)
                   /\ vec' = vec
                   /\ Len(vec') = Len(vec)
                   /\ vecCap' = vecCap
      ]_vars

\* C24 witness: a remove has just returned Ok(absent) for the live entity of
\* slot 1 while the backing Vec has the one position of slot 0, which holds
\* a value
C24_Witness ==
    /\ last.op = "pair.remove"
    /\ last.val[1] = Result("Ok", None)
    /\ ids = << Used(0), Used(0) >>
    /\ Len(vec) = 1
    /\ vec[1] # None

\* C25: a call of get or get_mut, on either storage and for any handle,
\* leaves the set of indices that hold a value in each storage, the length
\* of the dense storage's backing Vec, and the registry as they were.
C25_GetNeverInsertsOrRemoves ==
    [][ last'.op \in {"pair.get", "pair.get_mut"} =>
          /\ VecPresent' = VecPresent
          /\ MapPresent' = MapPresent
          /\ Len(vec') = Len(vec)
          /\ ids' = ids
      ]_vars

\* C25 witness: get_mut has just found nothing for a handle although both
\* storages hold a value at some index and a slot is free (the handle was
\* stale, or its entity had no component)
C25_Witness ==
    /\ last.op = "pair.get_mut"
    /\ last.val = << Result("Option", None), Result("Option", None) >>
    /\ VecPresent # {}
    /\ MapPresent # {}
    /\ \E k \in 1 .. Len(ids) : ~ids[k].used

\* C26: remove_unchecked does not look at the registry and signals no
\* error: for any handle, alive, stale or out of range, it returns the value
\* stored at the handle's index and leaves that index empty; when the index
\* holds nothing or lies outside the storage it returns absent and changes
\* nothing; the registry and the other storage are as before.
C26_RemoveUncheckedIgnoresRegistry ==
    [][ last'.op \in {"vec.remove_unchecked", "map.remove_unchecked"} =>
          \A entity \in Handles :
              /\ VecRemoveUnchecked(entity) =>
                    /\ last'.ret = "Unit"
                    /\ ids' = ids /\ map' = map /\ vecCap' = vecCap
                    /\ Len(vec') = Len(vec)
                    /\ IF entity.index \in VecPresent
                       THEN /\ last'.val = vec[entity.index + 1]
                            /\ VecPresent' = VecPresent \ {entity.index}
                            /\ \A i \in VecPresent' : vec'[i + 1] = vec[i + 1]
                       ELSE last'.val = None /\ vec' = vec
              /\ MapRemoveUnchecked(entity) =>
                    /\ last'.ret = "Unit"
                    /\ ids' = ids /\ vec' = vec /\ vecCap' = vecCap
                    /\ IF entity.index \in MapPresent
                       THEN /\ last'.val = Some(map[entity.index])
                            /\ MapPresent' = MapPresent \ {entity.index}
                            /\ \A i \in MapPresent' : map'[i] = map[i]
                       ELSE last'.val = None /\ map' = map
      ]_vars

\* C26 witness: remove_unchecked has just returned a value out of the dense
\* storage although no entity is alive, so the handle it was given was not
\* alive
C26_Witness ==
    /\ last.op = "vec.remove_unchecked"
    /\ last.val # None
    /\ ids # << >>
    /\ \A k \in 1 .. Len(ids) : ~ids[k].used

\* C27: a World despawn given a handle that is stale or out of range
\* returns Err, and a World despawn that returns Err leaves the registry and
\* every storage exactly as they were.
C27_FailedDespawnChangesNothing ==
    [][ last'.op = "world.despawn" =>
          /\ \A id \in Handles :
                (WorldDespawn(id) /\ ~Alive(ids, id)) => last'.ret = "Err"
          /\ last'.ret = "Err" =>
                /\ ids' = ids
                /\ vec' = vec
                /\ vecCap' = vecCap
                /\ map' = map
      ]_vars

\* C27 witness: a World despawn has just failed while every slot of a full
\* table is in use, slot 0 by a respawned entity, and both storages hold a
\* component for both entities: the handle was stale
C27_Witness ==
    /\ last.op = "world.despawn"
    /\ last.ret = "Err"
    /\ ids = << Used(1), Used(0) >>
    /\ VecPresent = {0, 1}
    /\ MapPresent = {0, 1}

\* C28: the length of the dense storage's backing Vec never exceeds
\* max(initial capacity, 2 * length of the registry's slot table). The
\* registry starts with as many slots as the storage's initial capacity and
\* never loses one, so the initial capacity is one of 0 .. Len(ids).
C28_GrowthBoundedByRegistry ==
    \A capacity \in 0 .. Len(ids) :
        Len(vec) <= Max(capacity, 2 * Len(ids))

\* C29: a storage set or remove validates and writes under one read guard
\* of the registry: between the validation and the write the thread holds
\* a read guard, no thread holds the write guard and the entity stays
\* alive; no registry call changes a slot in between; a write to the
\* storage is always the write of a call whose entity is alive at that
\* moment; and a call that returns Err writes nothing.
C29_ValidatedUnderOneGuard ==
    /\ [](\A t \in Threads :
             pc[t] = "checked" =>
                 /\ rd[t] >= 1
                 /\ wr = {}
                 /\ Alive(ids, hist[t][1].entity))
    /\ [][ /\ ids' # ids => \A t \in Threads : pc[t] # "checked"
           /\ map' # map =>
                 \E t \in Threads :
                     /\ pc[t] = "checked" /\ pc'[t] = "idle"
                     /\ Alive(ids, hist[t][1].entity)
                     /\ ids'[hist[t][1].entity.index + 1].used
           /\ (last' # last /\ last'.ret = "Err") => map' = map
         ]_vars

\* C29 witness: thread 1 has validated a set for an alive entity and not
\* yet written, while thread 2 is waiting for the write guard
C29_Witness ==
    /\ pc[1] = "checked"
    /\ hist[1][1].data # None
    /\ pc[2] = "write_wait"

\* C30: a storage call made inside an iteration, by the thread that holds
\* the iteration's read guard, is granted its own read guard whenever no
\* thread holds the write guard.
C30_NestedReadNeverBlocks ==
    \A t \in Threads :
        (pc[t] = "iter_read_wait" /\ wr = {}) => ENABLED QueuedAcquireRead(t)

\* C31: a World despawn or clear that has obtained the write guard runs to
\* its end: while it holds the guard the thread is never waiting for the
\* registry lock, the guard is released once the call has returned, also
\* when despawn returns Err, and every thread that holds the write guard
\* eventually holds it no longer.
C31_FanOutCompletes ==
    /\ [](\A t \in wr : pc[t] \in {"write_held", "fanout_vec", "fanout_map"})
    /\ [](\A t \in Threads : pc[t] = "idle" => t \notin wr)
    /\ [][ (last' # last /\ last'.op \in {"world.despawn", "world.clear"}) =>
              /\ wr # {}
              /\ wr' = {}
              /\ \A t \in wr : pc'[t] = "idle"
         ]_vars
    /\ \A t \in Threads : (t \in wr) ~> (t \notin wr)

\* C31 witness: a World despawn has returned Ok with slot 0 freed, and the
\* other thread has since been granted the write guard
C31_Witness ==
    /\ last.op = "world.despawn"
    /\ last.ret = "Ok"
    /\ ids # << >>
    /\ ids[1] = Unused(1)
    /\ \E t \in Threads : wr = {t} /\ pc[t] = "write_held"

\* C32: while no generation has wrapped (here they stay within 0 .. MaxGen),
\* the entity a spawn returns differs from every entity an earlier spawn
\* returned, whatever despawns and clears came in between: the sequence of
\* returned entities holds no value twice, and its last element is what the
\* latest spawn returned.
C32_SpawnNeverRepeats ==
    /\ \A i \in 1 .. Len(hist), j \in 1 .. Len(hist) :
          i < j => hist[i] # hist[j]
    /\ last.op = "spawn" => last.ent = Some(hist[Len(hist)])

\* C32 witness: the latest spawn reused slot 0 for the third time, after a
\* despawn and a clear or two despawns of that slot
C32_Witness ==
    /\ last.op = "spawn"
    /\ Len(hist) >= 3
    /\ hist[Len(hist)] = Entity(0, 2)
    /\ \E i \in 1 .. Len(hist), j \in 1 .. Len(hist) :
          hist[i] = Entity(0, 0) /\ hist[j] = Entity(0, 1)

====
